---- MODULE Spec2Model ----
(***************************************************************************)
(* lambda_handler of postgresql/main.py: a health check that reads its     *)
(* configuration from the process environment, probes a PostgreSQL server  *)
(* with `SELECT version();` and is written to report the outcome to an SQS *)
(* queue.  One behaviour of the model is one invocation of the handler;    *)
(* each action is one statement (or one external call) of the function.    *)
(*                                                                         *)
(* Text is a sequence of tokens: f"Error: {e}" is <<"Error: ", e>>.        *)
(* A Python value the handler handles is tagged: None is <<"NoneType">>,   *)
(* a result row (v,) is <<"tuple", v>>.                                    *)
(***************************************************************************)
EXTENDS Integers, Sequences, FiniteSets, TLC

\* Largest number of rows the server's answer to the query holds.
MaxRows == 2

\* The version texts a server may report.
Versions == {"PostgreSQL 14.1", "PostgreSQL 15.2"}

VARIABLES
    environ,         \* os.environ: the set of variable names that are set
    server,          \* the database: does connect raise, does execute raise, rows of the answer
    region_ok,       \* can boto3 build the client (a region is configured)
    queue_raises,    \* would send_message raise
    pc,              \* the handler's position
    db_port,         \* local db_port
    sqs_client,      \* local sqs_client (TRUE once built)
    conn,            \* the connection: "none", "open", "closed"
    cur,             \* the cursor: "none", "open", "closed"
    cur_rows,        \* rows the cursor has not yet handed out
    rec,             \* local record
    version,         \* local version
    status_message,  \* local status_message (a dict)
    exc,             \* the exception being handled (its str()), <<>> when none
    returned,        \* the responses returned to the caller, in order
    fault,           \* the uncaught exception that ended the invocation, <<>> when none
    connect_calls,   \* number of psycopg2.connect calls
    queries,         \* the statements passed to cur.execute, in order
    fetch_calls,     \* number of cur.fetchone calls
    close_calls,     \* number of close calls (cursor and connection)
    send_calls,      \* the MessageBody of every send_message call, in order
    sent             \* the MessageBody of every send_message call that succeeded

vars == <<environ, server, region_ok, queue_raises, pc, db_port, sqs_client, conn,
          cur, cur_rows, rec, version, status_message, exc, returned, fault,
          connect_calls, queries, fetch_calls, close_calls, send_calls, sent>>

world == <<environ, server, region_ok, queue_raises>>
calls == <<connect_calls, queries, fetch_calls, close_calls, send_calls, sent>>

-----------------------------------------------------------------------------
\* Environment variables

\* os.environ[...] lookups, in the order the handler makes them.
Required == <<"DB_HOST", "DB_NAME", "DB_USER", "DB_PASSWORD", "SQS_URL">>

RequiredNames == {Required[i] : i \in DOMAIN Required}

EnvNames == RequiredNames \cup {"DB_PORT"}

\* The value a variable holds when it is set.
EnvValue(name) == IF name = "DB_PORT" THEN "6432" ELSE name

\* os.environ.get(name, default)
EnvironGet(name, default) == IF name \in environ THEN EnvValue(name) ELSE default

DefaultPort == "5432"

\* The names whose os.environ[name] lookup raises KeyError.
Missing == {i \in DOMAIN Required : Required[i] \notin environ}

\* The first lookup that raises.
FirstMissing == Required[CHOOSE i \in Missing : \A j \in Missing : i <= j]

-----------------------------------------------------------------------------
\* Python values and text

NoneVal == <<"NoneType">>

Row(v) == <<"tuple", v>>

Unset == <<"unset">>

\* All sequences over S of length at most n.
SeqsUpTo(S, n) == UNION {[1..k -> S] : k \in 0..n}

\* cursor.fetchone(): the next row, or None when the rows are used up.
FetchOne(rows) == IF rows = <<>> THEN NoneVal ELSE Head(rows)

AfterFetch(rows) == IF rows = <<>> THEN <<>> ELSE Tail(rows)

\* repr() of a fetched value inside an f-string.
Repr(v) == IF v = NoneVal THEN <<"None">> ELSE <<"('", v[2], "',)">>

EmptyDict == [k \in {} |-> <<>>]

StatusMessage(status, message) == [status |-> <<status>>, message |-> message]

\* json.dumps of a status_message dict.
JsonDumps(d) ==
    IF DOMAIN d = {} THEN <<"{}">>
    ELSE <<"{\"status\": \"">> \o d.status \o <<"\", \"message\": \"">>
            \o d.message \o <<"\"}">>

Response(code, body) == [statusCode |-> code, body |-> body]

Contains(text, token) == \E i \in DOMAIN text : text[i] = token

ConnectError == <<"could not connect to server">>
ExecuteError == <<"server closed the connection unexpectedly">>
SubscriptError == <<"'NoneType' object is not subscriptable">>
SendError == <<"Could not connect to the endpoint URL">>

VersionQuery == "SELECT version();"

-----------------------------------------------------------------------------
\* The invocation

Init ==
    /\ environ \in SUBSET EnvNames
    /\ server \in [connect_raises : BOOLEAN, execute_raises : BOOLEAN,
                   rows : SeqsUpTo({Row(v) : v \in Versions}, MaxRows)]
    /\ region_ok \in BOOLEAN
    /\ queue_raises \in BOOLEAN
    /\ pc = "config"
    /\ db_port = Unset
    /\ sqs_client = FALSE
    /\ conn = "none"
    /\ cur = "none"
    /\ cur_rows = <<>>
    /\ rec = Unset
    /\ version = Unset
    /\ status_message = EmptyDict
    /\ exc = <<>>
    /\ returned = <<>>
    /\ fault = <<>>
    /\ connect_calls = 0
    /\ queries = <<>>
    /\ fetch_calls = 0
    /\ close_calls = 0
    /\ send_calls = <<>>
    /\ sent = <<>>

\* ReadConfig as it would be had line 12 read os.environ['DB_PORT'].
ReadConfigPortRequired ==
    /\ pc = "config"
    /\ IF Missing # {} \/ "DB_PORT" \notin environ
         THEN /\ fault' = <<"KeyError", IF Missing # {} THEN FirstMissing ELSE "DB_PORT">>
              /\ pc' = "fault"
              /\ UNCHANGED db_port
         ELSE /\ db_port' = EnvValue("DB_PORT")
              /\ pc' = "client"
              /\ UNCHANGED fault
    /\ UNCHANGED <<world, calls, sqs_client, conn, cur, cur_rows, rec, version,
                   status_message, exc, returned>>

\* Lines 8-13: the environment lookups; a missing required name raises KeyError,
\* which nothing catches.
ReadConfig ==
    /\ pc = "config"
    /\ IF Missing # {}
         THEN /\ fault' = <<"KeyError", FirstMissing>>
              /\ pc' = "fault"
              /\ UNCHANGED db_port
         ELSE /\ db_port' = EnvironGet("DB_PORT", DefaultPort)
              /\ pc' = "client"
              /\ UNCHANGED fault
    /\ UNCHANGED <<world, calls, sqs_client, conn, cur, cur_rows, rec, version,
                   status_message, exc, returned>>

\* Lines 15-16: build the SQS client (outside the try) and the empty status_message.
CreateClient ==
    /\ pc = "client"
    /\ IF region_ok
         THEN /\ sqs_client' = TRUE
              /\ status_message' = EmptyDict
              /\ pc' = "connect"
              /\ UNCHANGED fault
         ELSE /\ fault' = <<"NoRegionError", "You must specify a region.">>
              /\ pc' = "fault"
              /\ UNCHANGED <<sqs_client, status_message>>
    /\ UNCHANGED <<world, calls, db_port, conn, cur, cur_rows, rec, version, exc,
                   returned>>

\* Lines 20-26: psycopg2.connect.
Connect ==
    /\ pc = "connect"
    /\ connect_calls' = connect_calls + 1
    /\ IF server.connect_raises
         THEN /\ exc' = ConnectError
              /\ pc' = "except"
              /\ UNCHANGED conn
         ELSE /\ conn' = "open"
              /\ pc' = "cursor"
              /\ UNCHANGED exc
    /\ UNCHANGED <<world, queries, fetch_calls, close_calls, send_calls, sent, db_port,
                   sqs_client, cur, cur_rows, rec, version, status_message, returned,
                   fault>>

\* Line 28: conn.cursor().
Cursor ==
    /\ pc = "cursor"
    /\ cur' = "open"
    /\ pc' = "execute"
    /\ UNCHANGED <<world, calls, db_port, sqs_client, conn, cur_rows, rec, version,
                   status_message, exc, returned, fault>>

\* Line 31: cur.execute("SELECT version();").
Execute ==
    /\ pc = "execute"
    /\ queries' = Append(queries, VersionQuery)
    /\ IF server.execute_raises
         THEN /\ exc' = ExecuteError
              /\ pc' = "except"
              /\ UNCHANGED cur_rows
         ELSE /\ cur_rows' = server.rows
              /\ pc' = "fetch_record"
              /\ UNCHANGED exc
    /\ UNCHANGED <<world, connect_calls, fetch_calls, close_calls, send_calls, sent,
                   db_port, sqs_client, conn, cur, rec, version, status_message,
                   returned, fault>>

\* Line 32: record = cur.fetchone().
FetchRecord ==
    /\ pc = "fetch_record"
    /\ fetch_calls' = fetch_calls + 1
    /\ rec' = FetchOne(cur_rows)
    /\ cur_rows' = AfterFetch(cur_rows)
    /\ pc' = "fetch_version"
    /\ UNCHANGED <<world, connect_calls, queries, close_calls, send_calls, sent, db_port,
                   sqs_client, conn, cur, version, status_message, exc, returned, fault>>

\* Line 33: version = cur.fetchone()[0]; subscripting None raises TypeError.
FetchVersion ==
    /\ pc = "fetch_version"
    /\ fetch_calls' = fetch_calls + 1
    /\ cur_rows' = AfterFetch(cur_rows)
    /\ IF FetchOne(cur_rows) = NoneVal
         THEN /\ exc' = SubscriptError
              /\ pc' = "except"
              /\ UNCHANGED version
         ELSE /\ version' = FetchOne(cur_rows)[2]
              /\ pc' = "build"
              /\ UNCHANGED exc
    /\ UNCHANGED <<world, connect_calls, queries, close_calls, send_calls, sent, db_port,
                   sqs_client, conn, cur, rec, status_message, returned, fault>>

\* Lines 37-40: the success status_message.
BuildSuccess ==
    /\ pc = "build"
    /\ status_message' =
         StatusMessage("success", <<"Connected to PostgreSQL successfully: ", version>>)
    /\ pc' = "close"
    /\ UNCHANGED <<world, calls, db_port, sqs_client, conn, cur, cur_rows, rec, version,
                   exc, returned, fault>>

\* Close as it would be without line 44.
CloseCursorOnly ==
    /\ pc = "close"
    /\ cur' = "closed"
    /\ close_calls' = close_calls + 1
    /\ pc' = "return_success"
    /\ UNCHANGED <<world, connect_calls, queries, fetch_calls, send_calls, sent, db_port,
                   sqs_client, conn, cur_rows, rec, version, status_message, exc,
                   returned, fault>>

\* Lines 43-44: cur.close(); conn.close().  Closing an unnamed client-side cursor
\* and a connection are local operations of the driver and do not raise.
Close ==
    /\ pc = "close"
    /\ cur' = "closed"
    /\ conn' = "closed"
    /\ close_calls' = close_calls + 2
    /\ pc' = "return_success"
    /\ UNCHANGED <<world, connect_calls, queries, fetch_calls, send_calls, sent, db_port,
                   sqs_client, cur_rows, rec, version, status_message, exc, returned,
                   fault>>

\* Lines 46-49: return from inside the try.
ReturnSuccess ==
    /\ pc = "return_success"
    /\ returned' = Append(returned, Response(200, <<"Connected successfully: ">> \o Repr(rec)))
    /\ pc' = "done"
    /\ UNCHANGED <<world, calls, db_port, sqs_client, conn, cur, cur_rows, rec, version,
                   status_message, exc, fault>>

\* HandleException as it would be without lines 52-55.
HandleExceptionNoStatus ==
    /\ pc = "except"
    /\ returned' = Append(returned, Response(500, <<"Error: ">> \o exc))
    /\ pc' = "done"
    /\ UNCHANGED <<world, calls, db_port, sqs_client, conn, cur, cur_rows, rec, version,
                   status_message, exc, fault>>

\* HandleException as it would be with statusCode 200 on line 57.
HandleExceptionOk ==
    /\ pc = "except"
    /\ status_message' = StatusMessage("error", exc)
    /\ returned' = Append(returned, Response(200, <<"Error: ">> \o exc))
    /\ pc' = "done"
    /\ UNCHANGED <<world, calls, db_port, sqs_client, conn, cur, cur_rows, rec, version,
                   exc, fault>>

\* HandleException as it would be if the except clause tried the probe once more
\* before giving up.
HandleExceptionRetry ==
    /\ pc = "except"
    /\ status_message' = StatusMessage("error", exc)
    /\ IF connect_calls < 2
         THEN /\ pc' = "connect"
              /\ UNCHANGED returned
         ELSE /\ returned' = Append(returned, Response(500, <<"Error: ">> \o exc))
              /\ pc' = "done"
    /\ UNCHANGED <<world, calls, db_port, sqs_client, conn, cur, cur_rows, rec, version,
                   exc, fault>>

\* Lines 51-59: except Exception as e: the error status_message and the return.
HandleException ==
    /\ pc = "except"
    /\ status_message' = StatusMessage("error", exc)
    /\ returned' = Append(returned, Response(500, <<"Error: ">> \o exc))
    /\ pc' = "done"
    /\ UNCHANGED <<world, calls, db_port, sqs_client, conn, cur, cur_rows, rec, version,
                   exc, fault>>

\* Lines 62-71: the SQS send and its except clause.  Control reaches line 62 only
\* by falling out of the try statement of lines 18-59.
SendMessage ==
    /\ pc = "send"
    /\ send_calls' = Append(send_calls, JsonDumps(status_message))
    /\ IF queue_raises
         THEN /\ returned' = Append(returned,
                    Response(500, <<"Failed to send message to SQS: ">> \o SendError))
              /\ pc' = "done"
              /\ UNCHANGED sent
         ELSE /\ sent' = Append(sent, JsonDumps(status_message))
              /\ pc' = "return_final"
              /\ UNCHANGED returned
    /\ UNCHANGED <<world, connect_calls, queries, fetch_calls, close_calls, db_port,
                   sqs_client, conn, cur, cur_rows, rec, version, status_message, exc,
                   fault>>

\* Lines 73-76: the final return.
ReturnFinal ==
    /\ pc = "return_final"
    /\ returned' = Append(returned, Response(200, JsonDumps(status_message)))
    /\ pc' = "done"
    /\ UNCHANGED <<world, calls, db_port, sqs_client, conn, cur, cur_rows, rec, version,
                   status_message, exc, fault>>

\* The statements of lambda_handler that control can reach.  Both the try body
\* (line 46) and its only except clause (line 56) end in a return, so no
\* statement hands control to line 62: SendMessage and ReturnFinal are not steps
\* of any invocation.
Next ==
    \/ ReadConfig
    \/ CreateClient
    \/ Connect
    \/ Cursor
    \/ Execute
    \/ FetchRecord
    \/ FetchVersion
    \/ BuildSuccess
    \/ Close
    \/ ReturnSuccess
    \/ HandleException

Spec == Init /\ [][Next]_vars

\* The runtime runs the handler to completion: whichever statement is next, is
\* eventually executed.
FairSpec == Spec /\ WF_vars(Next)

-----------------------------------------------------------------------------
\* Vocabulary of the properties

Done == pc = "done"

Faulted == pc = "fault"

Terminated == Done \/ Faulted

ConfigComplete == RequiredNames \subseteq environ

FaultType == IF fault = <<>> THEN "none" ELSE fault[1]

\* The response the caller got (the handler has returned).
TheResponse == returned[Len(returned)]

\* The server is reachable and answers the query with at least one row.
DatabaseHealthy ==
    /\ ~server.connect_raises
    /\ ~server.execute_raises
    /\ Len(server.rows) >= 1

\* The handler has returned and the try body raised nothing.
DbStepSucceeded == Done /\ exc = <<>>

\* The handler has returned after the try body raised.
DbStepFailed == Done /\ exc # <<>>

PublishFailureBody == <<"Failed to send message to SQS: ">> \o SendError

SuccessText(v) == <<"Connected to PostgreSQL successfully: ", v>>

TypeInvariant ==
    /\ pc \in {"config", "client", "connect", "cursor", "execute", "fetch_record",
               "fetch_version", "build", "close", "return_success", "except", "done",
               "fault"}
    /\ conn \in {"none", "open", "closed"}
    /\ cur \in {"none", "open", "closed"}
    /\ Len(returned) <= 1
    /\ (Done <=> Len(returned) = 1)

-----------------------------------------------------------------------------
\* C1: with every required variable set, a reachable server and the one-row
\* answer of `SELECT version();`, the handler returns statusCode 200 and a body
\* that contains the version text of that row.
C1_SuccessPathReturns200 ==
    (/\ Done
     /\ ConfigComplete
     /\ region_ok
     /\ DatabaseHealthy
     /\ Len(server.rows) = 1)
    => /\ TheResponse.statusCode = 200
       /\ Contains(TheResponse.body, server.rows[1][2])

\* C2: when the database is healthy and send_message would raise, the response
\* is 500 with the publish-failure text.
C2_PublishFailureOverrides ==
    (Done /\ DatabaseHealthy /\ queue_raises)
    => TheResponse = Response(500, PublishFailureBody)

\* C3: an invocation that got past the configuration has made exactly one
\* send_message call, with the JSON text of status_message, by the time it
\* returns.
C3_OneSendBeforeReturn ==
    Done => send_calls = <<JsonDumps(status_message)>>

\* C4: when the database is healthy and the queue accepts the message, the
\* response is 200 and its body is the JSON text of the success status_message
\* carrying a version text the server reported.
C4_BodyIsJsonStatus ==
    (Done /\ DatabaseHealthy /\ ~queue_raises)
    => \E i \in DOMAIN server.rows :
          TheResponse =
            Response(200, JsonDumps(StatusMessage("success", SuccessText(server.rows[i][2]))))

\* C5: a failure of connect, of execute or of the row read is caught (it never
\* ends the invocation as an uncaught fault); the handler then holds the
\* status_message {status: error, message: str(e)}, returns 500 with the body
\* "Error: " + str(e), and no send_message call has succeeded.
C5_DbFailureHandled ==
    /\ (exc # <<>> => pc \in {"except", "done"} /\ fault = <<>>)
    /\ (Done /\ server.connect_raises => exc = ConnectError)
    /\ (Done /\ ~server.connect_raises /\ server.execute_raises => exc = ExecuteError)
    /\ (DbStepFailed =>
          /\ status_message = StatusMessage("error", exc)
          /\ returned = <<Response(500, <<"Error: ">> \o exc)>>
          /\ sent = <<>>)

C5_Witness ==
    /\ Done
    /\ exc = SubscriptError
    /\ TheResponse.statusCode = 500

\* C6: when a required variable is missing, the invocation ends in an uncaught
\* KeyError, returns no response, and never connects, queries or sends; a missing
\* DB_PORT alone raises nothing and the port is "5432".
C6_MissingVariableFaultsFirst ==
    /\ (~ConfigComplete =>
          /\ connect_calls = 0 /\ conn = "none" /\ queries = <<>>
          /\ send_calls = <<>> /\ returned = <<>>
          /\ pc \in {"config", "fault"}
          /\ (Faulted => FaultType = "KeyError" /\ fault[2] \notin environ))
    /\ (ConfigComplete /\ "DB_PORT" \notin environ /\ pc # "config" =>
          /\ FaultType # "KeyError"
          /\ db_port = "5432")

C6_Witness ==
    /\ Faulted
    /\ fault = <<"KeyError", "SQS_URL">>
    /\ "DB_PORT" \notin environ

\* C7: once the query has run against a healthy database, the handler has issued
\* it exactly once and made exactly one fetch, and the version text in status_message and in the body
\* is the text of that one row.
C7_OneQueryOneFetch ==
    (Done /\ DatabaseHealthy)
    => /\ queries = <<VersionQuery>>
       /\ fetch_calls = 1
       /\ (DbStepSucceeded =>
             /\ status_message.message = SuccessText(server.rows[1][2])
             /\ Contains(TheResponse.body, server.rows[1][2]))

\* C8: closing happens on the success path and only there: an invocation that
\* returned the success response closed cursor and connection before it
\* returned; one whose try body raised after connect succeeded made no close
\* call and leaves the connection open.
C8_CloseOnlyOnSuccess ==
    /\ (returned # <<>> /\ exc = <<>> =>
          cur = "closed" /\ conn = "closed" /\ close_calls = 2)
    /\ (close_calls > 0 => exc = <<>> /\ pc \in {"return_success", "done"})
    /\ (DbStepFailed /\ ~server.connect_raises => close_calls = 0 /\ conn = "open")

C8_Witness ==
    /\ Done
    /\ TheResponse.statusCode = 200
    /\ conn = "closed"
    /\ cur = "closed"

\* C9: every invocation ends, with one response or an uncaught fault and no
\* further step, after at most one connect, one execute and one send_message
\* call.
C9_TerminatesWithoutRetry ==
    /\ [](connect_calls <= 1 /\ Len(queries) <= 1 /\ Len(send_calls) <= 1)
    /\ [](Done => Len(returned) = 1 /\ fault = <<>>)
    /\ [](Faulted => returned = <<>> /\ fault # <<>>)
    /\ [](Terminated => ~ENABLED Next)
    /\ <>Terminated

C9_Witness ==
    /\ Done
    /\ exc = ExecuteError
    /\ connect_calls = 1
    /\ Len(queries) = 1

\* C10: every response has statusCode 200 or 500; 200 only when connect, execute
\* and the row reads all succeeded; a handled database failure or a failed
\* send_message call yields 500.
C10_StatusCodes ==
    \A i \in DOMAIN returned :
        /\ returned[i].statusCode \in {200, 500}
        /\ (returned[i].statusCode = 200 =>
              /\ ~server.connect_raises
              /\ ~server.execute_raises
              /\ exc = <<>>
              /\ rec # NoneVal /\ rec # Unset
              /\ version \in Versions)
        /\ (exc # <<>> => returned[i].statusCode = 500)
        /\ (Len(send_calls) > Len(sent) => returned[i].statusCode = 500)

C10_Witness ==
    /\ Done
    /\ TheResponse.statusCode = 200
    /\ version \in Versions

====
